---- MODULE Spec2Model ----
(***************************************************************************)
(* Court transcription system: the audio pipeline of                       *)
(* CourtTranscriptionService.process_audio (noise suppression, speaker     *)
(* diarization, Whisper recognition, segment fusion, transcript assembly,  *)
(* storage) together with the collaborators it calls.                      *)
(*                                                                         *)
(* Times are whole seconds.  Strings are TLA+ strings.  None is the        *)
(* Python None where a string may stand; an optional record is a sequence  *)
(* of at most one record.  A uuid4() is a fresh natural number taken from  *)
(* next_uuid.                                                              *)
(***************************************************************************)
EXTENDS Integers, Sequences, FiniteSets, TLC

VARIABLES
    AUDIO_LIBS_AVAILABLE,   \* noise_suppression.py module flag
    librosa_installed,      \* whether "import librosa" succeeds
    diarization_available,  \* DiarizationService.diarization_available
    model,                  \* name of the Whisper model the service holds
    files,                  \* file system: path -> audio content
    pc,                     \* position of the running process_audio call
    audio_file,             \* process_audio argument
    case_id,                \* process_audio argument
    clean_audio_file,       \* local of process_audio
    speaker_segments,       \* local of process_audio
    transcribed_segments,   \* local of process_audio
    combined_segments,      \* local of process_audio
    transcript,             \* local of process_audio
    outcome,                \* what the call gave its caller
    store_result,           \* what store_transcript returned to process_audio
    calls,                  \* the collaborator calls made so far by the call
    transcripts,            \* table transcripts: id -> row
    audit_log,              \* table audit_log, in insertion order
    next_uuid,              \* source of fresh identifiers
    reply,                  \* the last call made to a service on its own
    updates                 \* update_transcript_segment calls in progress

vars == <<AUDIO_LIBS_AVAILABLE, librosa_installed, diarization_available, model,
          files, pc, audio_file, case_id, clean_audio_file, speaker_segments,
          transcribed_segments, combined_segments, transcript, outcome,
          store_result, calls, transcripts, audit_log, next_uuid, reply,
          updates>>

(***************************************************************************)
(* Bounds of the model.                                                    *)
(***************************************************************************)
MaxSegs == 2        \* longest list of transcribed segments
MaxTurns == 2       \* longest list of diarization turns

TimePoints == {0, 5, 10}
Texts == {"objection", "sustained"}
None == "None"

Max(a, b) == IF a >= b THEN a ELSE b
Min(a, b) == IF a <= b THEN a ELSE b

SeqsUpTo(S, n) == UNION {[1..k -> S] : k \in 0..n}

(***************************************************************************)
(* Segment fusion: _combine_transcription_with_speakers.                   *)
(***************************************************************************)
OverlapClosedIntervals(segment, spk_segment) ==
    LET overlap_start == Max(segment.start, spk_segment.start)
        overlap_end == Min(segment.end, spk_segment.end)
    IN  Max(0, overlap_end - overlap_start + 1)

Overlap(segment, spk_segment) ==
    LET overlap_start == Max(segment.start, spk_segment.start)
        overlap_end == Min(segment.end, spk_segment.end)
    IN  Max(0, overlap_end - overlap_start)

ImprovesOrTies(overlap, max_overlap) == overlap >= max_overlap

Improves(overlap, max_overlap) == overlap > max_overlap

RECURSIVE ScanSpeakers(_, _, _, _)
ScanSpeakers(segment, spk_segments, best_speaker, max_overlap) ==
    IF spk_segments = <<>>
    THEN best_speaker
    ELSE LET spk_segment == Head(spk_segments)
             overlap == Overlap(segment, spk_segment)
         IN  IF Improves(overlap, max_overlap)
             THEN ScanSpeakers(segment, Tail(spk_segments), spk_segment.speaker, overlap)
             ELSE ScanSpeakers(segment, Tail(spk_segments), best_speaker, max_overlap)

BestSpeaker(segment, spk_segments) ==
    ScanSpeakers(segment, spk_segments, "Unknown", 0)

FusedFromTurn(segment, spk_segments, id) ==
    [id |-> id,
     speaker |-> BestSpeaker(segment, spk_segments),
     text |-> segment.text,
     start_time |-> IF spk_segments = <<>> THEN segment.start ELSE spk_segments[1].start,
     end_time |-> IF spk_segments = <<>> THEN segment.end ELSE spk_segments[1].end,
     confidence |-> 0]

Fused(segment, spk_segments, id) ==
    [id |-> id,
     speaker |-> BestSpeaker(segment, spk_segments),
     text |-> segment.text,
     start_time |-> segment.start,
     end_time |-> segment.end,
     confidence |-> 0]

CombineDroppingUnknown(segments, spk_segments, first_id) ==
    LET kept == SelectSeq(segments, LAMBDA s : BestSpeaker(s, spk_segments) # "Unknown")
    IN  [i \in 1..Len(kept) |-> Fused(kept[i], spk_segments, first_id + i - 1)]

combine_transcription_with_speakers(segments, spk_segments, first_id) ==
    [i \in 1..Len(segments) |-> Fused(segments[i], spk_segments, first_id + i - 1)]

(***************************************************************************)
(* Audio files.  A file is its duration in seconds, whether librosa.load   *)
(* reads it, whether the decoders of Whisper and pyannote read it, and     *)
(* whether it is a product of the noise filter.                            *)
(***************************************************************************)
Durations == {5, 25}

Audio(duration, loadable, decodable, filtered) ==
    [duration |-> duration, loadable |-> loadable, decodable |-> decodable,
     filtered |-> filtered]

Unreadable == Audio(0, FALSE, FALSE, FALSE)

Uploads == {Audio(d, TRUE, TRUE, FALSE) : d \in Durations}
              \cup {Audio(d, FALSE, TRUE, FALSE) : d \in Durations}
              \cup {Unreadable}

Put(f, k, v) == [x \in DOMAIN f \cup {k} |-> IF x = k THEN v ELSE f[x]]

(***************************************************************************)
(* NoiseSuppression.process.  fault is the step of the try block that      *)
(* raises, if any; tmp is the name tempfile gives the new file.  The       *)
(* result says whether an exception reached the caller, the path returned  *)
(* and the file system afterwards.                                         *)
(***************************************************************************)
NoiseFaults == {"none", "filter", "write"}

NoiseResult(raised, path, fs) == [raised |-> raised, path |-> path, fs |-> fs]

NoiseProcessUnguarded(fs, path, fault, tmp) ==
    IF ~AUDIO_LIBS_AVAILABLE \/ ~fs[path].loadable \/ fault = "filter"
    THEN NoiseResult(TRUE, path, fs)
    ELSE IF fault = "write"
    THEN NoiseResult(TRUE, path, Put(fs, tmp, Unreadable))
    ELSE NoiseResult(FALSE, tmp, Put(fs, tmp, Audio(fs[path].duration, TRUE, TRUE, TRUE)))

NoiseProcess(fs, path, fault, tmp) ==
    IF ~AUDIO_LIBS_AVAILABLE
    THEN NoiseResult(FALSE, path, fs)
    ELSE IF ~fs[path].loadable \/ fault = "filter"
    THEN NoiseResult(FALSE, path, fs)
    ELSE IF fault = "write"
    THEN NoiseResult(FALSE, path, Put(fs, tmp, Unreadable))
    ELSE NoiseResult(FALSE, tmp, Put(fs, tmp, Audio(fs[path].duration, TRUE, TRUE, TRUE)))

(***************************************************************************)
(* DiarizationService.                                                     *)
(***************************************************************************)
RawSpeakers == {"SPEAKER_0", "SPEAKER_1", "SPEAKER_2", "SPEAKER_3",
                "SPEAKER_00", "SPEAKER_01", "SPEAKER_10"}

Track(a, b, r) == [start |-> a, end |-> b, speaker |-> r]

\* Tracks the pretrained pipeline may yield for an upload.
Tracks == {Track(0, 5, "SPEAKER_0"), Track(5, 10, "SPEAKER_01"), Track(0, 10, "SPEAKER_0")}

TrackLists == SeqsUpTo(Tracks, MaxTurns)

\* speaker.split("_")[-1]
LastField(speaker) ==
    LET marks == {i \in 1..Len(speaker) : SubSeq(speaker, i, i) = "_"}
        last == IF marks = {} THEN 0 ELSE CHOOSE i \in marks : \A j \in marks : j <= i
    IN  SubSeq(speaker, last + 1, Len(speaker))

map_speaker_to_role(speaker) ==
    LET speaker_id == LastField(speaker)
    IN  IF speaker_id = "0" THEN "Judge"
        ELSE IF speaker_id = "1" THEN "Advocate (Plaintiff)"
        ELSE IF speaker_id = "2" THEN "Advocate (Defense)"
        ELSE "Speaker " \o speaker_id

segment_length == 10

speaker_roles == <<"Judge", "Advocate (Plaintiff)", "Advocate (Defense)", "Witness">>

MinimalSegments ==
    << [start |-> 0, end |-> 30, speaker |-> "Judge"],
       [start |-> 30, end |-> 60, speaker |-> "Advocate (Plaintiff)"],
       [start |-> 60, end |-> 90, speaker |-> "Advocate (Defense)"] >>

WindowSegmentsCeil(duration) ==
    LET num_segments == (duration + segment_length - 1) \div segment_length
    IN  [k \in 1..num_segments |->
            [start |-> (k - 1) * segment_length,
             end |-> Min(k * segment_length, duration),
             speaker |-> speaker_roles[((k - 1) % Len(speaker_roles)) + 1]]]

WindowSegments(duration) ==
    LET num_segments == duration \div segment_length
    IN  [k \in 1..num_segments |->
            [start |-> (k - 1) * segment_length,
             end |-> Min(k * segment_length, duration),
             speaker |-> speaker_roles[((k - 1) % Len(speaker_roles)) + 1]]]

DiarizeResult(raised, segments) == [raised |-> raised, segments |-> segments]

\* "import librosa" stands before the try block: its failure is not caught.
generate_mock_segments(fs, path) ==
    IF ~librosa_installed
    THEN DiarizeResult(TRUE, <<>>)
    ELSE IF ~fs[path].loadable
    THEN DiarizeResult(FALSE, MinimalSegments)
    ELSE DiarizeResult(FALSE, WindowSegments(fs[path].duration))

\* result is what self.pipeline(audio_file) does: it raises or yields tracks.
diarize(fs, path, result) ==
    IF ~diarization_available
    THEN generate_mock_segments(fs, path)
    ELSE IF result.raised
    THEN generate_mock_segments(fs, path)
    ELSE DiarizeResult(FALSE,
            [k \in 1..Len(result.tracks) |->
                [start |-> result.tracks[k].start,
                 end |-> result.tracks[k].end,
                 speaker |-> map_speaker_to_role(result.tracks[k].speaker)]])

PipelineRaises == [raised |-> TRUE, tracks |-> <<>>]

PipelineResults(fs, path) ==
    IF fs[path].decodable /\ diarization_available
    THEN {PipelineRaises} \cup {[raised |-> FALSE, tracks |-> t] : t \in TrackLists}
    ELSE {PipelineRaises}

(***************************************************************************)
(* Whisper: self.model.transcribe(clean_audio_file)["segments"].           *)
(***************************************************************************)
Segment(a, b, t) == [start |-> a, end |-> b, text |-> t]

\* Segments Whisper may yield for an upload.
WhisperSegments == {Segment(0, 5, "objection"), Segment(0, 10, "sustained"),
                    Segment(5, 10, "objection"), Segment(5, 5, "sustained")}

WhisperLists == SeqsUpTo(WhisperSegments, MaxSegs)

TranscribeRaises == [raised |-> TRUE, segments |-> <<>>]

TranscribeResults(fs, path) ==
    IF fs[path].decodable
    THEN {TranscribeRaises} \cup {[raised |-> FALSE, segments |-> g] : g \in WhisperLists}
    ELSE {TranscribeRaises}

(***************************************************************************)
(* StorageService.store_transcript.  Rows keep the columns the operations  *)
(* read: data, hash and case_id; audit rows keep id, transcript_id, action,*)
(* user and details.  Time stamps are left out.                            *)
(***************************************************************************)
json_dumps(obj) == <<"json", obj>>

sha256(text) == <<"sha256", text>>

Row(t) ==
    [data |-> json_dumps(t),
     hash |-> sha256(json_dumps(t)),
     case_id |-> t.case_details[1].case_id]

AuditEntry(id, transcript_id, action, user, details) ==
    [id |-> id, transcript_id |-> transcript_id, action |-> action,
     user |-> user, details |-> details]

StoreResult(ok, db, log) == [ok |-> ok, transcripts |-> db, audit_log |-> log]

\* db_ok: whether sqlite executes and commits the two INSERTs.  With
\* case_details None, transcript_data.get("case_details", {}) is None and
\* .get("case_id") raises AttributeError inside the try block.
store_transcript(db, log, transcript_id, transcript_data, db_ok, log_id) ==
    IF transcript_data.case_details = <<>>
    THEN StoreResult(FALSE, db, log)
    ELSE IF ~db_ok \/ transcript_id \in DOMAIN db
    THEN StoreResult(FALSE, db, log)
    ELSE StoreResult(TRUE,
            Put(db, transcript_id, Row(transcript_data)),
            Append(log, AuditEntry(log_id, transcript_id, "create", "system",
                                   Len(transcript_data.segments))))

(***************************************************************************)
(* CourtTranscriptionService.process_audio, one action per stage.          *)
(***************************************************************************)
CaseIds == {None, "", "2024-17"}

Truthy(s) == s # None /\ s # ""

get_case_details(c) ==
    [case_id |-> c, case_title |-> "Case #" \o c, court |-> "District Court",
     judge |-> "Hon. Judge Smith"]

Speakers(segments) == {segments[k].speaker : k \in 1..Len(segments)}

Metadata(file, name, spk_segments, c) ==
    [audio_file |-> file,
     model |-> "whisper-" \o name,
     speakers_detected |-> Cardinality(Speakers(spk_segments)),
     case_id |-> c]

Transcript(id, segments, metadata, c) ==
    [id |-> id,
     segments |-> segments,
     metadata |-> metadata,
     case_details |-> IF Truthy(c) THEN <<get_case_details(c)>> ELSE <<>>,
     status |-> "success"]

\* A collaborator call: its stage, the path it was given (0: none), whether
\* it raised to process_audio, and a note on what it gave back.
Call(stage, path, raised, result) ==
    [stage |-> stage, path |-> path, raised |-> raised, result |-> result]

\* lines 61-67: the path the later stages work on.
CleanAudioFile(raw, r) == IF r.raised THEN raw ELSE r.path

DiarizationInputRaw(raw, clean) == raw

\* line 72: diarize is given clean_audio_file.
DiarizationInput(raw, clean) == clean

DiarizeUncaught(r) == [fatal |-> r.raised, speaker_segments |-> r.segments]

\* lines 71-77: an exception of diarize is caught, the turns are then [].
DiarizeHandled(r) ==
    [fatal |-> FALSE, speaker_segments |-> IF r.raised THEN <<>> ELSE r.segments]

TranscribeDegraded(result) == [fatal |-> FALSE, segments |-> result.segments]

\* lines 81-87: an exception of transcribe is raised again to the caller.
TranscribeHandled(result) == [fatal |-> result.raised, segments |-> result.segments]

Raised == [kind |-> "raised", value |-> <<>>]

NoOutcome == [kind |-> "none", value |-> <<>>]

NoReply == [n |-> 0, op |-> "none"]

NoUpdates == <<>>

\* app.upload_audio saves the upload and calls process_audio.
upload_audio ==
    /\ pc = "idle"
    /\ \E a \in Uploads, c \in CaseIds :
          /\ files' = Put(files, next_uuid, a)
          /\ audio_file' = next_uuid
          /\ case_id' = c
    /\ next_uuid' = next_uuid + 1
    /\ pc' = "noise"
    /\ UNCHANGED <<reply, updates>>
    /\ UNCHANGED <<AUDIO_LIBS_AVAILABLE, librosa_installed, diarization_available,
                   model, clean_audio_file, speaker_segments, transcribed_segments,
                   combined_segments, transcript, outcome, store_result, calls,
                   transcripts, audit_log>>

NoiseStage ==
    /\ pc = "noise"
    /\ \E fault \in NoiseFaults :
          LET r == NoiseProcess(files, audio_file, fault, next_uuid)
          IN  /\ clean_audio_file' = CleanAudioFile(audio_file, r)
              /\ files' = r.fs
              /\ calls' = Append(calls, Call("process", audio_file, r.raised, r.path))
    /\ next_uuid' = next_uuid + 1
    /\ pc' = "diarize"
    /\ UNCHANGED <<reply, updates>>
    /\ UNCHANGED <<AUDIO_LIBS_AVAILABLE, librosa_installed, diarization_available,
                   model, audio_file, case_id, speaker_segments, transcribed_segments,
                   combined_segments, transcript, outcome, store_result,
                   transcripts, audit_log>>

DiarizeStage ==
    /\ pc = "diarize"
    /\ LET path == DiarizationInput(audio_file, clean_audio_file)
       IN  \E result \in PipelineResults(files, path) :
              LET r == diarize(files, path, result)
                  h == DiarizeHandled(r)
              IN  /\ speaker_segments' = h.speaker_segments
                  /\ calls' = Append(calls, Call("diarize", path, r.raised,
                                        IF diarization_available /\ ~result.raised
                                        THEN "model" ELSE "fallback"))
                  /\ pc' = IF h.fatal THEN "failed" ELSE "transcribe"
                  /\ outcome' = IF h.fatal THEN Raised ELSE outcome
    /\ UNCHANGED <<reply, updates>>
    /\ UNCHANGED <<AUDIO_LIBS_AVAILABLE, librosa_installed, diarization_available,
                   model, files, audio_file, case_id, clean_audio_file,
                   transcribed_segments, combined_segments, transcript,
                   store_result, transcripts, audit_log, next_uuid>>

TranscribeStage ==
    /\ pc = "transcribe"
    /\ \E result \in TranscribeResults(files, clean_audio_file) :
          LET h == TranscribeHandled(result)
          IN  /\ calls' = Append(calls, Call("transcribe", clean_audio_file,
                                             result.raised, Len(result.segments)))
              /\ IF h.fatal
                 THEN /\ pc' = "failed"
                      /\ outcome' = Raised
                      /\ UNCHANGED transcribed_segments
                 ELSE /\ pc' = "fuse"
                      /\ transcribed_segments' = h.segments
                      /\ UNCHANGED outcome
    /\ UNCHANGED <<reply, updates>>
    /\ UNCHANGED <<AUDIO_LIBS_AVAILABLE, librosa_installed, diarization_available,
                   model, files, audio_file, case_id, clean_audio_file,
                   speaker_segments, combined_segments, transcript, store_result,
                   transcripts, audit_log, next_uuid>>

FuseStage ==
    /\ pc = "fuse"
    /\ combined_segments' =
          combine_transcription_with_speakers(transcribed_segments, speaker_segments, next_uuid)
    /\ next_uuid' = next_uuid + Len(transcribed_segments)
    /\ calls' = Append(calls, Call("combine", 0, FALSE, Len(transcribed_segments)))
    /\ pc' = "assemble"
    /\ UNCHANGED <<reply, updates>>
    /\ UNCHANGED <<AUDIO_LIBS_AVAILABLE, librosa_installed, diarization_available,
                   model, files, audio_file, case_id, clean_audio_file,
                   speaker_segments, transcribed_segments, transcript, outcome,
                   store_result, transcripts, audit_log>>

AssembleStage ==
    /\ pc = "assemble"
    /\ transcript' = <<Transcript(next_uuid, combined_segments,
                                  Metadata(audio_file, model, speaker_segments, case_id),
                                  case_id)>>
    /\ next_uuid' = next_uuid + 1
    /\ calls' = Append(calls, Call("assemble", 0, FALSE, next_uuid))
    /\ pc' = "store"
    /\ UNCHANGED <<reply, updates>>
    /\ UNCHANGED <<AUDIO_LIBS_AVAILABLE, librosa_installed, diarization_available,
                   model, files, audio_file, case_id, clean_audio_file,
                   speaker_segments, transcribed_segments, combined_segments,
                   outcome, store_result, transcripts, audit_log>>

ReturnOnlyIfStored(t, stored) == IF stored THEN t ELSE <<>>

\* lines 117-124: the result of store_transcript is not looked at.
ProcessAudioReturn(t, stored) == t

StoreStage ==
    /\ pc = "store"
    /\ \E db_ok \in BOOLEAN :
          LET r == store_transcript(transcripts, audit_log, transcript[1].id,
                                    transcript[1], db_ok, next_uuid)
          IN  /\ transcripts' = r.transcripts
              /\ audit_log' = r.audit_log
              /\ store_result' = <<[ok |-> r.ok, arg |-> transcript[1]]>>
              /\ calls' = Append(calls, Call("store_transcript", 0, FALSE, r.ok))
              /\ outcome' = [kind |-> "returned",
                             value |-> ProcessAudioReturn(transcript, r.ok)]
    /\ next_uuid' = next_uuid + 1

    /\ pc' = "done"
    /\ UNCHANGED <<reply, updates>>
    /\ UNCHANGED <<AUDIO_LIBS_AVAILABLE, librosa_installed, diarization_available,
                   model, files, audio_file, case_id, clean_audio_file,
                   speaker_segments, transcribed_segments, combined_segments,
                   transcript>>

(***************************************************************************)
(* Initial states: the services are constructed, the database is empty or  *)
(* holds one transcript of an earlier run.                                 *)
(***************************************************************************)
EarlierTranscript ==
    Transcript(1, <<[id |-> 2, speaker |-> "Judge", text |-> "order", start_time |-> 0,
                     end_time |-> 5, confidence |-> 0]>>,
               Metadata(3, "base", <<>>, "2023-04"), "2023-04")

EarlierDb == Put(<<>>, 1, Row(EarlierTranscript))

EarlierLog == <<AuditEntry(4, 1, "create", "system", 1)>>

Idle ==
    /\ audio_file = 0
    /\ case_id = None
    /\ clean_audio_file = 0
    /\ speaker_segments = <<>>
    /\ transcribed_segments = <<>>
    /\ combined_segments = <<>>
    /\ transcript = <<>>
    /\ outcome = NoOutcome
    /\ store_result = <<>>
    /\ calls = <<>>

Init ==
    /\ librosa_installed \in BOOLEAN
    /\ AUDIO_LIBS_AVAILABLE \in {b \in BOOLEAN : b => librosa_installed}
    /\ diarization_available \in BOOLEAN
    /\ model \in {"base", "tiny"}
    /\ files = <<>>
    /\ pc = "idle"
    /\ Idle
    /\ \/ transcripts = <<>> /\ audit_log = <<>>
       \/ transcripts = EarlierDb /\ audit_log = EarlierLog
    /\ next_uuid = 5
    /\ reply = NoReply
    /\ updates = NoUpdates

Next ==
    \/ upload_audio
    \/ NoiseStage
    \/ DiarizeStage
    \/ TranscribeStage
    \/ FuseStage
    \/ AssembleStage
    \/ StoreStage

Spec == Init /\ [][Next]_vars

(***************************************************************************)
(* The fusion function on its own: any transcribed segments, any turns.    *)
(***************************************************************************)
TurnLabels == {"Judge", "Witness"}

Turns == {[start |-> a, end |-> b, speaker |-> l] :
             a \in TimePoints, b \in TimePoints, l \in TurnLabels}

TurnLists == SeqsUpTo({d \in Turns : d.start < d.end}, MaxTurns)

Segments == {Segment(a, b, t) : a \in TimePoints, b \in TimePoints, t \in Texts}

SegmentLists == SeqsUpTo({g \in Segments : g.start <= g.end}, MaxSegs)

InitFuse ==
    /\ librosa_installed = TRUE
    /\ AUDIO_LIBS_AVAILABLE = TRUE
    /\ diarization_available = TRUE
    /\ model = "base"
    /\ files = <<>>
    /\ pc = "fuse"
    /\ audio_file = 0
    /\ case_id = None
    /\ clean_audio_file = 0
    /\ speaker_segments \in TurnLists
    /\ transcribed_segments \in SegmentLists
    /\ combined_segments = <<>>
    /\ transcript = <<>>
    /\ outcome = NoOutcome
    /\ store_result = <<>>
    /\ calls = <<>>
    /\ transcripts = <<>>
    /\ audit_log = <<>>
    /\ next_uuid = 5
    /\ reply = NoReply
    /\ updates = NoUpdates

NextFuse == FuseStage

SpecFuse == InitFuse /\ [][NextFuse]_vars

(***************************************************************************)
(* Properties of the fusion, checked under SpecFuse.                       *)
(***************************************************************************)
Fusing == pc = "assemble"

\* The length of the part two intervals share, stated without the loop.
Shared(t, d) ==
    LET lo == Max(t.start, d.start)
        hi == Min(t.end, d.end)
    IN  IF hi > lo THEN hi - lo ELSE 0

MostShared(t, turns) ==
    IF turns = <<>> THEN 0
    ELSE CHOOSE m \in {Shared(t, turns[k]) : k \in 1..Len(turns)} :
            \A k \in 1..Len(turns) : Shared(t, turns[k]) <= m

FirstMostShared(t, turns) ==
    CHOOSE k \in 1..Len(turns) :
        /\ Shared(t, turns[k]) = MostShared(t, turns)
        /\ \A j \in 1..(k - 1) : Shared(t, turns[j]) < MostShared(t, turns)

\* C1: the fusion returns exactly one fused segment per transcribed segment,
\* in the same order: output i carries the text and the interval of input i.
C1_OnePerSegmentInOrder ==
    Fusing =>
        /\ Len(combined_segments) = Len(transcribed_segments)
        /\ \A i \in 1..Len(transcribed_segments) :
              /\ combined_segments[i].text = transcribed_segments[i].text
              /\ combined_segments[i].start_time = transcribed_segments[i].start
              /\ combined_segments[i].end_time = transcribed_segments[i].end

C1_Witness ==
    /\ Fusing
    /\ Len(transcribed_segments) = 2
    /\ transcribed_segments[1].start > transcribed_segments[2].start
    /\ transcribed_segments[1].text # transcribed_segments[2].text
    /\ Len(speaker_segments) = 2
    /\ combined_segments[1].speaker = "Unknown"
    /\ combined_segments[2].speaker = "Witness"

\* C2: when some turn overlaps the segment, the fused speaker is the label of
\* the first turn, in the order given, whose overlap is the largest one; a
\* later turn with an equal overlap does not replace it.  Segment [10, 20]
\* with turns (0,15,Judge), (15,25,Clerk) gets Judge.
C2_FirstLargestOverlapWins ==
    /\ Fusing =>
          \A i \in 1..Len(transcribed_segments) :
              LET t == transcribed_segments[i]
              IN  MostShared(t, speaker_segments) > 0 =>
                     combined_segments[i].speaker =
                        speaker_segments[FirstMostShared(t, speaker_segments)].speaker
    /\ BestSpeaker(Segment(10, 20, "objection"),
                   << [start |-> 0, end |-> 15, speaker |-> "Judge"],
                      [start |-> 15, end |-> 25, speaker |-> "Clerk"] >>) = "Judge"

C2_Witness ==
    /\ Fusing
    /\ Len(transcribed_segments) = 1
    /\ Len(speaker_segments) = 2
    /\ Shared(transcribed_segments[1], speaker_segments[1]) > 0
    /\ Shared(transcribed_segments[1], speaker_segments[1])
          = Shared(transcribed_segments[1], speaker_segments[2])
    /\ speaker_segments[1].speaker # speaker_segments[2].speaker
    /\ combined_segments[1].speaker = speaker_segments[1].speaker

\* C3: with no turns, or with no turn sharing an interval of positive length
\* with the segment (turns that only touch it included), the fused speaker
\* is "Unknown".
C3_UnknownWithoutOverlap ==
    Fusing =>
        \A i \in 1..Len(transcribed_segments) :
            LET t == transcribed_segments[i]
            IN  (\A k \in 1..Len(speaker_segments) :
                    Min(t.end, speaker_segments[k].end)
                       <= Max(t.start, speaker_segments[k].start))
                => combined_segments[i].speaker = "Unknown"

C3_Witness ==
    /\ Fusing
    /\ Len(transcribed_segments) = 1
    /\ transcribed_segments[1].start < transcribed_segments[1].end
    /\ Len(speaker_segments) = 2
    /\ speaker_segments[1].start = transcribed_segments[1].end
    /\ speaker_segments[2].start = transcribed_segments[1].end
    /\ combined_segments[1].speaker = "Unknown"

(***************************************************************************)
(* Properties of process_audio, checked under Spec.                        *)
(***************************************************************************)
Stages(cs) == [k \in 1..Len(cs) |-> cs[k].stage]

CallsOf(stage) == {k \in 1..Len(calls) : calls[k].stage = stage}

StageOrder == <<"process", "diarize", "transcribe", "combine", "assemble", "store_transcript">>

TranscribeFailed == \E k \in CallsOf("transcribe") : calls[k].raised

TranscribeSucceeded == \E k \in CallsOf("transcribe") : ~calls[k].raised

DiarizeRaised == \E k \in CallsOf("diarize") : calls[k].raised

InitialDb ==
    \/ transcripts = <<>> /\ audit_log = <<>>
    \/ transcripts = EarlierDb /\ audit_log = EarlierLog

Complete(t) ==
    /\ DOMAIN t = {"id", "segments", "metadata", "case_details", "status"}
    /\ t.id \in Nat /\ t.id > 0
    /\ t.segments = combined_segments
    /\ t.metadata = Metadata(audio_file, model, speaker_segments, case_id)
    /\ t.case_details = (IF Truthy(case_id) THEN <<get_case_details(case_id)>> ELSE <<>>)
    /\ t.status = "success"

\* C4: every fused segment of a transcript made by process_audio has the
\* start, end and text of the transcribed segment at its place, and a
\* non-empty speaker that is "Unknown" or the label of a turn given to the
\* fusion.
C4_SegmentsFromTranscription ==
    transcript # <<>> =>
        LET segs == transcript[1].segments
        IN  /\ Len(segs) = Len(transcribed_segments)
            /\ \A i \in 1..Len(segs) :
                  /\ segs[i].start_time = transcribed_segments[i].start
                  /\ segs[i].end_time = transcribed_segments[i].end
                  /\ segs[i].text = transcribed_segments[i].text
                  /\ Len(segs[i].speaker) > 0
                  /\ segs[i].speaker \in {"Unknown"} \cup Speakers(speaker_segments)

C4_Witness ==
    /\ pc = "done"
    /\ outcome.kind = "returned"
    /\ Len(outcome.value[1].segments) = 2
    /\ outcome.value[1].segments[1].speaker = "Speaker 01"
    /\ outcome.value[1].segments[1].start_time = 0
    /\ outcome.value[1].segments[1].end_time = 10
    /\ speaker_segments[1].start = 5
    /\ outcome.value[1].segments[2].speaker = "Unknown"

\* C5: process_audio fails only if speech recognition fails: once transcribe
\* has succeeded, whatever noise suppression and diarization did, the call
\* raises nothing, goes on to its end and returns a complete transcript.
C5_FailsOnlyIfRecognitionFails ==
    /\ outcome.kind = "raised" => TranscribeFailed
    /\ TranscribeSucceeded =>
          /\ pc \in {"fuse", "assemble", "store", "done"}
          /\ pc # "done" => ENABLED Next
          /\ pc = "done" =>
                /\ outcome.kind = "returned"
                /\ outcome.value # <<>>
                /\ Complete(outcome.value[1])

C5_Witness ==
    /\ pc = "done"
    /\ ~AUDIO_LIBS_AVAILABLE
    /\ DiarizeRaised
    /\ outcome.kind = "returned"
    /\ Len(outcome.value[1].segments) = 2

\* C6: when transcribe raises, the request fails with an exception, no
\* transcript is returned or assembled, the fusion is not run,
\* store_transcript is not called, and the stored transcripts and the audit
\* log are as they were before the request.
C6_RecognitionFailureIsFatal ==
    TranscribeFailed =>
        /\ pc = "failed"
        /\ outcome = Raised
        /\ transcript = <<>>
        /\ combined_segments = <<>>
        /\ CallsOf("combine") = {}
        /\ CallsOf("store_transcript") = {}
        /\ store_result = <<>>
        /\ InitialDb
        /\ ~ENABLED Next

C6_Witness ==
    /\ pc = "failed"
    /\ TranscribeFailed
    /\ files[clean_audio_file].decodable
    /\ speaker_segments # <<>>
    /\ transcripts = EarlierDb

\* C7: if store_transcript fails, process_audio still returns the assembled
\* transcript, the same one it returns when storage succeeds, and raises
\* nothing.
C7_StorageFailureStillReturns ==
    store_result # <<>> =>
        /\ pc = "done"
        /\ outcome.kind = "returned"
        /\ outcome.value = transcript
        /\ outcome.value = <<store_result[1].arg>>
        /\ Complete(outcome.value[1])

C7_Witness ==
    /\ pc = "done"
    /\ store_result # <<>>
    /\ ~store_result[1].ok
    /\ transcript[1].case_details # <<>>
    /\ outcome.kind = "returned"
    /\ outcome.value = transcript
    /\ Len(transcript[1].segments) > 0
    /\ InitialDb

\* C8: the stages of a run happen in the order noise suppression,
\* diarization, transcription, fusion, assembly, store; diarization and
\* transcription are given the path the noise filter gave back;
\* store_transcript is called at most once, and only with a transcript
\* whose id, segments, metadata, case_details and status are set.
C8_StageOrder ==
    /\ Len(calls) <= Len(StageOrder)
    /\ Stages(calls) = SubSeq(StageOrder, 1, Len(calls))
    /\ \A k \in CallsOf("diarize") \cup CallsOf("transcribe") :
          /\ calls[k].path = calls[1].result
          /\ calls[k].path = clean_audio_file
    /\ Cardinality(CallsOf("store_transcript")) <= 1
    /\ (store_result # <<>>) = (CallsOf("store_transcript") # {})
    /\ store_result # <<>> =>
          /\ CallsOf("assemble") # {}
          /\ Complete(store_result[1].arg)
    /\ \A id \in DOMAIN transcripts :
          transcripts[id] # EarlierDb[1] =>
             /\ store_result # <<>>
             /\ transcripts[id] = Row(store_result[1].arg)

C8_Witness ==
    /\ pc = "done"
    /\ Stages(calls) = StageOrder
    /\ calls[1].result # audio_file
    /\ calls[2].path = calls[1].result
    /\ calls[3].path = calls[1].result
    /\ files[calls[1].result].filtered
    /\ store_result[1].ok
    /\ transcript[1].id \in DOMAIN transcripts
    /\ Len(transcript[1].segments) = 2

Degraded ==
    \E k \in CallsOf("diarize") : calls[k].raised \/ calls[k].result = "fallback"

\* C9: whenever diarization is unavailable or fails during a run, an
\* exception that escapes diarize included, the turns process_audio passes
\* to the fusion are the fallback turns of the diarization service (the
\* 10-second windows, or the three fixed turns), and the run continues.
C9_FallbackTurnsReachFusion ==
    Degraded =>
        /\ pc = "failed" => TranscribeFailed
        /\ CallsOf("combine") # {} =>
              speaker_segments \in
                 {WindowSegments(files[clean_audio_file].duration), MinimalSegments}

\* C10: NoiseSuppression.process never raises to its caller; without the
\* audio libraries it returns the input path and touches no file; when the
\* audio cannot be loaded it returns the input path; in every case the input
\* file is left as it was and the path returned is the input path or that
\* of a newly created filtered copy.
C10_NoiseProcessNeverRaises ==
    [][pc = "noise" =>
          LET c == calls'[Len(calls')]
          IN  /\ c.stage = "process"
              /\ ~c.raised
              /\ audio_file \in DOMAIN files'
              /\ files'[audio_file] = files[audio_file]
              /\ \A f \in DOMAIN files : f \in DOMAIN files' /\ files'[f] = files[f]
              /\ \/ c.result = audio_file
                 \/ /\ c.result \notin DOMAIN files
                    /\ c.result \in DOMAIN files'
                    /\ files'[c.result] = Audio(files[audio_file].duration, TRUE, TRUE, TRUE)
              /\ ~AUDIO_LIBS_AVAILABLE => c.result = audio_file /\ files' = files
              /\ ~files[audio_file].loadable => c.result = audio_file
    ]_vars

C10_Witness ==
    /\ pc = "diarize"
    /\ AUDIO_LIBS_AVAILABLE
    /\ files[audio_file].loadable
    /\ calls[1].result = audio_file
    /\ ~calls[1].raised
    /\ DOMAIN files # {audio_file}

(***************************************************************************)
(* The diarization service on its own: construction, then diarize calls on *)
(* one audio file.  reply keeps the last call: whether the pipeline was    *)
(* run, what it did, and what diarize gave back.                           *)
(***************************************************************************)
MaxCalls == 2
MaxDuration == 95

RunVars == <<audio_file, case_id, clean_audio_file, speaker_segments,
             transcribed_segments, combined_segments, transcript, outcome,
             store_result, calls>>

Tokens == {None, "", "hf_token"}

\* self.diarization_available after __init__: pipeline_ok is whether
\* Pipeline.from_pretrained(...).to(device) returns.
DiarizationServiceInit(PYANNOTE_AVAILABLE, hf_token, pipeline_ok) ==
    IF PYANNOTE_AVAILABLE /\ Truthy(hf_token)
    THEN pipeline_ok
    ELSE FALSE

ModelTracks == {Track(0, 5, r) : r \in RawSpeakers}

ModelResults(fs, path) ==
    IF fs[path].decodable
    THEN {PipelineRaises}
            \cup {[raised |-> FALSE, tracks |-> t] : t \in SeqsUpTo(ModelTracks, MaxTurns)}
    ELSE {PipelineRaises}

\* The audio a service is asked to diarize: files of any whole duration that
\* the pipeline cannot decode, and the uploads it can.
DiarAudio ==
    {Audio(d, l, FALSE, FALSE) : d \in 0..MaxDuration, l \in BOOLEAN}
       \cup {Audio(d, l, TRUE, FALSE) : d \in Durations, l \in BOOLEAN}

DiarizationService ==
    /\ pc = "new"
    /\ \E p \in BOOLEAN, tok \in Tokens, ok \in BOOLEAN :
          diarization_available' = DiarizationServiceInit(p, tok, ok)
    /\ pc' = "ready"
    /\ UNCHANGED <<AUDIO_LIBS_AVAILABLE, librosa_installed, model, files,
                   transcripts, audit_log, next_uuid, reply>>
    /\ UNCHANGED updates
    /\ UNCHANGED RunVars

DiarizeCall ==
    /\ pc = "ready"
    /\ reply.n < MaxCalls
    /\ \E path \in DOMAIN files :
          \E r \in ModelResults(files, path) :
             reply' = [n |-> reply.n + 1, op |-> "diarize", arg |-> path,
                       attempted |-> diarization_available,
                       pipeline |-> r,
                       result |-> diarize(files, path, r)]
    /\ UNCHANGED <<AUDIO_LIBS_AVAILABLE, librosa_installed, diarization_available,
                   model, files, pc, transcripts, audit_log, next_uuid>>
    /\ UNCHANGED updates
    /\ UNCHANGED RunVars

InitDiar ==
    /\ librosa_installed \in BOOLEAN
    /\ AUDIO_LIBS_AVAILABLE = FALSE
    /\ diarization_available = FALSE
    /\ model = "base"
    /\ files \in {<<a>> : a \in DiarAudio}
    /\ pc = "new"
    /\ Idle
    /\ transcripts = <<>>
    /\ audit_log = <<>>
    /\ next_uuid = 5
    /\ reply = NoReply
    /\ updates = NoUpdates

NextDiar ==
    \/ DiarizationService
    \/ DiarizeCall

SpecDiar == InitDiar /\ [][NextDiar]_vars

\* A diarize call that ran in fallback mode: the model is unavailable, or
\* the pipeline was run and failed.
FallbackCall(r) ==
    /\ r.op = "diarize"
    /\ ~r.attempted \/ r.pipeline.raised

ModelFailed(r) == r.op = "diarize" /\ r.attempted /\ r.pipeline.raised

FixedTurns ==
    << [start |-> 0, end |-> 30, speaker |-> "Judge"],
       [start |-> 30, end |-> 60, speaker |-> "Advocate (Plaintiff)"],
       [start |-> 60, end |-> 90, speaker |-> "Advocate (Defense)"] >>

Rotation == <<"Judge", "Advocate (Plaintiff)", "Advocate (Defense)", "Witness">>

\* The turns the 10-second windows give for a duration d.
IsWindowTurns(turns, d) ==
    /\ Len(turns) * 10 <= d
    /\ d < (Len(turns) + 1) * 10
    /\ \A k \in 1..Len(turns) :
          /\ turns[k].start = 10 * (k - 1)
          /\ turns[k].end = Min(10 * k, d)
          /\ turns[k].start < turns[k].end
          /\ turns[k].speaker = Rotation[((k - 1) % 4) + 1]

\* C11: the availability flag set by the constructor is changed by no
\* diarize call; a diarize call whose pipeline run fails returns the
\* fallback turns, and the diarize call after it runs the pipeline again.
C11_ModeFixedFailureFallsBack ==
    [][pc = "ready" =>
          /\ diarization_available' = diarization_available
          /\ reply'.attempted = diarization_available
          /\ ModelFailed(reply') =>
                /\ ~reply'.result.raised
                /\ \/ reply'.result.segments = FixedTurns
                   \/ IsWindowTurns(reply'.result.segments, files[reply'.arg].duration)
          /\ ModelFailed(reply) => reply'.attempted
    ]_vars

\* C12: in fallback mode, when librosa is installed and loads the audio,
\* diarize returns floor(D / 10) turns, turn i spanning
\* [10*i, min(10*(i+1), D)] with start < end and role i mod 4 of the
\* rotation; for D = 95 these are 9 turns, the first of the Judge.
C12_FallbackWindows ==
    (FallbackCall(reply) /\ librosa_installed /\ files[reply.arg].loadable) =>
        /\ ~reply.result.raised
        /\ IsWindowTurns(reply.result.segments, files[reply.arg].duration)
        /\ files[reply.arg].duration = 95 =>
              /\ Len(reply.result.segments) = 9
              /\ reply.result.segments[1].speaker = "Judge"

C12_Witness ==
    /\ FallbackCall(reply)
    /\ librosa_installed
    /\ files[reply.arg].loadable
    /\ files[reply.arg].duration = 95
    /\ Len(reply.result.segments) = 9
    /\ reply.result.segments[9].end = 90
    /\ reply.result.segments[9].speaker = "Judge"

\* C13: in fallback mode, when the audio cannot be loaded or librosa is not
\* installed, diarize does not raise and returns the three fixed turns.
C13_FixedTurnsWithoutDuration ==
    (FallbackCall(reply) /\ (~librosa_installed \/ ~files[reply.arg].loadable)) =>
        /\ ~reply.result.raised
        /\ reply.result.segments = FixedTurns

LastChar(s) == SubSeq(s, Len(s), Len(s))

\* C14: in model mode every raw identifier SPEAKER_<digits> ending in "0"
\* is labelled Judge, in "1" Advocate (Plaintiff), in "2" Advocate
\* (Defense), and any other "Speaker " followed by the identifier.
C14_RoleByLastDigit ==
    (reply.op = "diarize" /\ reply.attempted /\ ~reply.pipeline.raised) =>
        \A k \in 1..Len(reply.pipeline.tracks) :
            LET raw == reply.pipeline.tracks[k].speaker
                label == reply.result.segments[k].speaker
            IN  IF LastChar(raw) = "0" THEN label = "Judge"
                ELSE IF LastChar(raw) = "1" THEN label = "Advocate (Plaintiff)"
                ELSE IF LastChar(raw) = "2" THEN label = "Advocate (Defense)"
                ELSE label \in {"Speaker " \o raw, "Speaker " \o LastField(raw)}

(***************************************************************************)
(* Construction of the transcription service, followed by the run of      *)
(* process_audio.  ok_base and ok_tiny say whether whisper.load_model of   *)
(* that name, moved to the device, returns.                                *)
(***************************************************************************)
Load(name, ok) == [name |-> name, ok |-> ok]

LoadResult(loads, held, raised) == [loads |-> loads, model |-> held, raised |-> raised]

LoadSmallerFirst(ok_base, ok_tiny) ==
    IF ok_tiny
    THEN LoadResult(<<Load("tiny", TRUE)>>, "tiny", FALSE)
    ELSE IF ok_base
    THEN LoadResult(<<Load("tiny", FALSE), Load("base", TRUE)>>, "base", FALSE)
    ELSE LoadResult(<<Load("tiny", FALSE), Load("base", FALSE)>>, None, TRUE)

load_whisper(ok_base, ok_tiny) ==
    IF ok_base
    THEN LoadResult(<<Load("base", TRUE)>>, "base", FALSE)
    ELSE IF ok_tiny
    THEN LoadResult(<<Load("base", FALSE), Load("tiny", TRUE)>>, "tiny", FALSE)
    ELSE LoadResult(<<Load("base", FALSE), Load("tiny", FALSE)>>, None, TRUE)

CourtTranscriptionService ==
    /\ pc = "new"
    /\ \E ok_base \in BOOLEAN, ok_tiny \in BOOLEAN :
          LET r == load_whisper(ok_base, ok_tiny)
          IN  /\ model' = r.model
              /\ pc' = IF r.raised THEN "noservice" ELSE "idle"
              /\ reply' = [n |-> 0, op |-> "CourtTranscriptionService",
                           loads |-> r.loads, raised |-> r.raised]
    /\ UNCHANGED <<AUDIO_LIBS_AVAILABLE, librosa_installed, diarization_available,
                   files, transcripts, audit_log, next_uuid>>
    /\ UNCHANGED updates
    /\ UNCHANGED RunVars

InitCtor ==
    /\ librosa_installed \in BOOLEAN
    /\ AUDIO_LIBS_AVAILABLE \in {b \in BOOLEAN : b => librosa_installed}
    /\ diarization_available \in BOOLEAN
    /\ model = None
    /\ files = <<>>
    /\ pc = "new"
    /\ Idle
    /\ transcripts = <<>>
    /\ audit_log = <<>>
    /\ next_uuid = 5
    /\ reply = NoReply
    /\ updates = NoUpdates

NextCtor ==
    \/ CourtTranscriptionService
    \/ Next

SpecCtor == InitCtor /\ [][NextCtor]_vars

Constructed == reply.op = "CourtTranscriptionService"

\* C15: the constructor loads "base" (the larger model) first and "tiny"
\* only after the load of "base" failed; when both loads fail it raises and
\* there is no service, so nothing runs afterwards; otherwise the service
\* holds the one model whose load succeeded, and no step of process_audio
\* assigns the model.
C15_ModelLadder ==
    /\ [](Constructed =>
            /\ reply.loads[1].name = "base"
            /\ Len(reply.loads) = (IF reply.loads[1].ok THEN 1 ELSE 2)
            /\ Len(reply.loads) = 2 => reply.loads[2].name = "tiny"
            /\ reply.raised = ~reply.loads[Len(reply.loads)].ok
            /\ reply.raised => pc = "noservice" /\ model = None
            /\ ~reply.raised =>
                  /\ pc # "noservice"
                  /\ model = reply.loads[Len(reply.loads)].name)
    /\ [][pc # "noservice" /\ (pc # "new" => model' = model)]_vars

C15_Witness ==
    /\ Constructed
    /\ Len(reply.loads) = 2
    /\ reply.loads[2].ok
    /\ model = "tiny"
    /\ pc = "done"
    /\ transcript # <<>>
    /\ transcript[1].metadata.model = "whisper-tiny"

(***************************************************************************)
(* The storage service on its own: store, get, update, delete, list and    *)
(* export calls in any order on one database, and edits of a stored row    *)
(* made outside the service.  db_ok is whether sqlite executes and commits *)
(* the statements of the call.                                             *)
(***************************************************************************)
MaxOps == 2

json_loads(text) == text[2]

IntegrityUnchecked(row) == TRUE

\* computed_hash != stored_hash, lines 150-153
IntegrityOk(row) == sha256(row.data) = row.hash

get_transcript(db, transcript_id, db_ok) ==
    IF ~db_ok \/ transcript_id \notin DOMAIN db
    THEN <<>>
    ELSE IF ~IntegrityOk(db[transcript_id])
    THEN <<>>
    ELSE <<json_loads(db[transcript_id].data)>>

UpdateAllSegments(segments, segment_id, new_text) ==
    [k \in 1..Len(segments) |-> [segments[k] EXCEPT !.text = new_text]]

\* the loop of lines 188-192: the first segment with that id, then break
UpdateSegments(segments, segment_id, new_text) ==
    LET found == {k \in 1..Len(segments) : segments[k].id = segment_id}
    IN  IF found = {}
        THEN segments
        ELSE LET first == CHOOSE k \in found : \A j \in found : k <= j
             IN  [segments EXCEPT ![first].text = new_text]

UpdatedRowDataOnly(row, json_data) == [row EXCEPT !.data = json_data]

\* UPDATE transcripts SET data = ?, updated_at = ?, hash = ?, lines 211-218
UpdatedRow(row, json_data) ==
    [row EXCEPT !.data = json_data, !.hash = sha256(json_data)]

SegmentIds(segments) == {segments[k].id : k \in 1..Len(segments)}

update_transcript_segment(db, log, transcript_id, segment_id, new_text, user, db_ok, log_id) ==
    LET got == get_transcript(db, transcript_id, db_ok)
    IN  IF got = <<>>
        THEN StoreResult(FALSE, db, log)
        ELSE IF segment_id \notin SegmentIds(got[1].segments)
        THEN StoreResult(FALSE, db, log)
        ELSE LET updated == [got[1] EXCEPT
                                !.segments = UpdateSegments(@, segment_id, new_text)]
                 json_data == json_dumps(updated)
             IN  StoreResult(TRUE,
                    [db EXCEPT ![transcript_id] = UpdatedRow(@, json_data)],
                    Append(log, AuditEntry(log_id, transcript_id, "update_segment",
                                           user, segment_id)))

DeleteWithItsAuditEntries(db, log, transcript_id, user, db_ok, log_id) ==
    IF ~db_ok \/ transcript_id \notin DOMAIN db
    THEN StoreResult(FALSE, db, log)
    ELSE StoreResult(TRUE,
            [x \in DOMAIN db \ {transcript_id} |-> db[x]],
            Append(SelectSeq(log, LAMBDA e : e.transcript_id # transcript_id),
                   AuditEntry(log_id, transcript_id, "delete", user, 0)))

delete_transcript(db, log, transcript_id, user, db_ok, log_id) ==
    IF ~db_ok \/ transcript_id \notin DOMAIN db
    THEN StoreResult(FALSE, db, log)
    ELSE StoreResult(TRUE,
            [x \in DOMAIN db \ {transcript_id} |-> db[x]],
            Append(log, AuditEntry(log_id, transcript_id, "delete", user, 0)))

\* ORDER BY created_at DESC: identifiers grow with the time of creation.
RECURSIVE NewestFirst(_)
NewestFirst(ids) ==
    IF ids = {}
    THEN <<>>
    ELSE LET newest == CHOOSE i \in ids : \A j \in ids : j <= i
         IN  <<newest>> \o NewestFirst(ids \ {newest})

Summary(transcript_id, row, user_role) ==
    LET data == json_loads(row.data)
        n == Len(data.segments)
    IN  [id |-> transcript_id,
         case_id |-> row.case_id,
         segments_count |-> n,
         speakers_count |-> Cardinality(Speakers(data.segments)),
         duration |-> IF n = 0 THEN 0 ELSE data.segments[n].end_time,
         details |-> IF user_role \in {"judge", "admin"}
                     THEN <<[metadata |-> data.metadata,
                             case_details |-> data.case_details]>>
                     ELSE <<>>]

list_transcripts(db, user_role, c, limit, offset, db_ok) ==
    IF ~db_ok
    THEN <<>>
    ELSE LET selected == {i \in DOMAIN db : Truthy(c) => db[i].case_id = c}
             ordered == NewestFirst(selected)
             page == SubSeq(ordered, offset + 1, Min(offset + limit, Len(ordered)))
         IN  [k \in 1..Len(page) |-> Summary(page[k], db[page[k]], user_role)]

Formats == {"txt", "pdf", "docx"}

ExportedText(t) ==
    [header |-> <<t.id, t.case_details>>,
     body |-> [k \in 1..Len(t.segments) |->
                 <<t.segments[k].speaker, t.segments[k].text, t.segments[k].start_time>>]]

ExportResult(path, fs) == [path |-> path, fs |-> fs]

\* tmp is the name tempfile gives the export file; it is created before the
\* format is looked at.
export_transcript(db, fs, transcript_id, format, db_ok, tmp) ==
    LET got == get_transcript(db, transcript_id, db_ok)
    IN  IF got = <<>>
        THEN ExportResult(<<>>, fs)
        ELSE IF format = "txt"
        THEN ExportResult(<<tmp>>, Put(fs, tmp, [format |-> format, text |-> <<ExportedText(got[1])>>]))
        ELSE IF format = "pdf"
        THEN ExportResult(<<tmp>>, Put(fs, tmp, [format |-> format, text |-> <<"PDF Export Placeholder">>]))
        ELSE ExportResult(<<>>, Put(fs, tmp, [format |-> format, text |-> <<>>]))

\* What process_audio assembles from the segments g of Whisper and the
\* turns of the diarization, with segment identifiers from first_id on.
Assembled(transcript_id, first_id, g, turns, c) ==
    Transcript(transcript_id,
               combine_transcription_with_speakers(g, turns, first_id),
               Metadata(1, "base", turns, c), c)

\* Whisper output and diarization turns of the runs whose transcripts are
\* stored: the first segment is the Judge's, the second has no speaker.
StoreSegments == {<<Segment(0, 5, "objection")>>,
                  <<Segment(0, 5, "objection"), Segment(5, 10, "sustained")>>}

StoreTurns == {<<[start |-> 0, end |-> 5, speaker |-> "Judge"]>>}

StoreCaseIds == {None, "2024-17"}

Pages == {[limit |-> 10, offset |-> 0], [limit |-> 1, offset |-> 1]}

Users == {"judge1", "admin1"}

UserRoles == {"judge", "clerk"}

\* Edits of the data column of a row made outside the service.
Forgeries(t) ==
    {[t EXCEPT !.metadata.model = "forged"]}
       \cup (IF t.segments = <<>> THEN {} ELSE {[t EXCEPT !.segments[1].text = "forged"]})

StoreVars == <<AUDIO_LIBS_AVAILABLE, librosa_installed, diarization_available,
               model, pc>>

StoreCall ==
    /\ pc = "ready"
    /\ reply.n < MaxOps
    /\ \E g \in StoreSegments, turns \in StoreTurns, c \in StoreCaseIds, db_ok \in BOOLEAN :
          \E transcript_id \in {next_uuid + Len(g)} \cup DOMAIN transcripts :
             LET t == Assembled(transcript_id, next_uuid, g, turns, c)
                 r == store_transcript(transcripts, audit_log, transcript_id, t, db_ok,
                                       next_uuid + Len(g) + 1)
             IN  /\ transcripts' = r.transcripts
                 /\ audit_log' = r.audit_log
                 /\ next_uuid' = next_uuid + Len(g) + 2
                 /\ reply' = [n |-> reply.n + 1, op |-> "store", id |-> transcript_id,
                              arg |-> t, db_ok |-> db_ok,
                              fresh |-> transcript_id \notin DOMAIN transcripts,
                              ok |-> r.ok]
    /\ UNCHANGED updates
    /\ UNCHANGED <<StoreVars, files, RunVars>>

Ids == DOMAIN transcripts \cup {0}

GetCall ==
    /\ pc = "ready"
    /\ reply.n < MaxOps
    /\ \E transcript_id \in Ids, db_ok \in BOOLEAN :
          reply' = [n |-> reply.n + 1, op |-> "get", id |-> transcript_id,
                    db_ok |-> db_ok,
                    result |-> get_transcript(transcripts, transcript_id, db_ok)]
    /\ UNCHANGED updates
    /\ UNCHANGED <<StoreVars, files, RunVars, transcripts, audit_log, next_uuid>>

StoredSegmentIds ==
    UNION {SegmentIds(json_loads(transcripts[i].data).segments) : i \in DOMAIN transcripts}

UpdateCall ==
    /\ pc = "ready"
    /\ reply.n < MaxOps
    /\ \E transcript_id \in Ids, segment_id \in StoredSegmentIds \cup {0},
          user \in Users, db_ok \in BOOLEAN :
          LET r == update_transcript_segment(transcripts, audit_log, transcript_id,
                                             segment_id, "overruled", user, db_ok,
                                             next_uuid)
          IN  /\ transcripts' = r.transcripts
              /\ audit_log' = r.audit_log
              /\ reply' = [n |-> reply.n + 1, op |-> "update", id |-> transcript_id,
                           segment_id |-> segment_id, new_text |-> "overruled",
                           user |-> user, db_ok |-> db_ok, ok |-> r.ok]
    /\ next_uuid' = next_uuid + 1
    /\ UNCHANGED updates
    /\ UNCHANGED <<StoreVars, files, RunVars>>

DeleteCall ==
    /\ pc = "ready"
    /\ reply.n < MaxOps
    /\ \E transcript_id \in Ids, user \in Users, db_ok \in BOOLEAN :
          LET r == delete_transcript(transcripts, audit_log, transcript_id, user,
                                     db_ok, next_uuid)
          IN  /\ transcripts' = r.transcripts
              /\ audit_log' = r.audit_log
              /\ reply' = [n |-> reply.n + 1, op |-> "delete", id |-> transcript_id,
                           user |-> user, db_ok |-> db_ok, ok |-> r.ok]
    /\ next_uuid' = next_uuid + 1
    /\ UNCHANGED updates
    /\ UNCHANGED <<StoreVars, files, RunVars>>

ListCall ==
    /\ pc = "ready"
    /\ reply.n < MaxOps
    /\ \E user_role \in UserRoles, c \in StoreCaseIds, page \in Pages, db_ok \in BOOLEAN :
          reply' = [n |-> reply.n + 1, op |-> "list", user_role |-> user_role,
                    case_id |-> c, page |-> page, db_ok |-> db_ok,
                    result |-> list_transcripts(transcripts, user_role, c, page.limit,
                                                page.offset, db_ok)]
    /\ UNCHANGED updates
    /\ UNCHANGED <<StoreVars, files, RunVars, transcripts, audit_log, next_uuid>>

ExportCall ==
    /\ pc = "ready"
    /\ reply.n < MaxOps
    /\ \E transcript_id \in Ids, format \in Formats, db_ok \in BOOLEAN :
          LET r == export_transcript(transcripts, files, transcript_id, format, db_ok,
                                     next_uuid)
          IN  /\ files' = r.fs
              /\ reply' = [n |-> reply.n + 1, op |-> "export", id |-> transcript_id,
                           format |-> format, db_ok |-> db_ok, result |-> r.path]
    /\ next_uuid' = next_uuid + 1
    /\ UNCHANGED updates
    /\ UNCHANGED <<StoreVars, RunVars, transcripts, audit_log>>

\* Someone with access to the database file rewrites the data of a row and
\* leaves its hash as it was.
ExternalEdit ==
    /\ pc = "ready"
    /\ \E transcript_id \in DOMAIN transcripts :
          /\ sha256(transcripts[transcript_id].data) = transcripts[transcript_id].hash
          /\ \E forged \in Forgeries(json_loads(transcripts[transcript_id].data)) :
                transcripts' = [transcripts EXCEPT ![transcript_id].data = json_dumps(forged)]
          /\ reply' = [n |-> reply.n, op |-> "external_edit", id |-> transcript_id]
    /\ UNCHANGED updates
    /\ UNCHANGED <<StoreVars, files, RunVars, audit_log, next_uuid>>

InitStore ==
    /\ librosa_installed = TRUE
    /\ AUDIO_LIBS_AVAILABLE = TRUE
    /\ diarization_available = FALSE
    /\ model = "base"
    /\ files = <<>>
    /\ pc = "ready"
    /\ Idle
    /\ \/ transcripts = <<>> /\ audit_log = <<>>
       \/ transcripts = EarlierDb /\ audit_log = EarlierLog
    /\ next_uuid = 5
    /\ reply = NoReply
    /\ updates = NoUpdates

NextStore ==
    \/ StoreCall
    \/ GetCall
    \/ UpdateCall
    \/ DeleteCall
    \/ ListCall
    \/ ExportCall
    \/ ExternalEdit

SpecStore == InitStore /\ [][NextStore]_vars

Mismatch(transcript_id) ==
    /\ transcript_id \in DOMAIN transcripts
    /\ sha256(transcripts[transcript_id].data) # transcripts[transcript_id].hash

\* C16: get_transcript returns None for a row whose stored hash differs
\* from the hash of its data, as it does for an id that is not stored; what
\* it returns is always the data of a row that passes the hash check.
C16_GetFailsClosed ==
    reply.op = "get" =>
        /\ Mismatch(reply.id) => reply.result = <<>>
        /\ reply.id \notin DOMAIN transcripts => reply.result = <<>>
        /\ reply.result # <<>> =>
              /\ reply.id \in DOMAIN transcripts
              /\ ~Mismatch(reply.id)
              /\ reply.result[1] = json_loads(transcripts[reply.id].data)

C16_Witness ==
    /\ reply.op = "get"
    /\ reply.db_ok
    /\ Mismatch(reply.id)
    /\ reply.result = <<>>
    /\ \E i \in DOMAIN transcripts : ~Mismatch(i)

\* C17: no read path surfaces a row whose stored hash does not match its
\* data: list_transcripts gives no summary of it, get_transcript and
\* export_transcript return None for it, update_transcript_segment refuses
\* it.
C17_EveryReadChecksHash ==
    /\ reply.op = "list" =>
          \A k \in 1..Len(reply.result) : ~Mismatch(reply.result[k].id)
    /\ reply.op = "get" => (Mismatch(reply.id) => reply.result = <<>>)
    /\ reply.op = "export" => (Mismatch(reply.id) => reply.result = <<>>)
    /\ reply.op = "update" => (Mismatch(reply.id) => ~reply.ok)

SameTextAndSpeaker(a, b) ==
    /\ Len(a) = Len(b)
    /\ \A k \in 1..Len(a) : a[k].text = b[k].text /\ a[k].speaker = b[k].speaker

\* C18: storing a transcript assembled by process_audio, with a case id or
\* without, under an id not yet stored succeeds, and the get_transcript
\* that follows returns segments with the same text and speaker, segment
\* by segment.
C18_StoreThenGet ==
    /\ []((reply.op = "store" /\ reply.fresh /\ reply.db_ok) => reply.ok)
    /\ [][(/\ reply.op = "store"
           /\ reply.fresh
           /\ reply.db_ok
           /\ reply'.op = "get"
           /\ reply'.id = reply.id
           /\ reply'.db_ok) =>
               /\ reply'.result # <<>>
               /\ SameTextAndSpeaker(reply'.result[1].segments, reply.arg.segments)
      ]_vars

StoredTranscript(db, transcript_id) == json_loads(db[transcript_id].data)

UpdateStep == reply'.op = "update" /\ reply'.n # reply.n

\* C19: an update_transcript_segment that returns True replaces the text of
\* the segment with the given id and leaves that segment's id, speaker,
\* start_time, end_time and confidence, every other segment, the
\* transcript's id, metadata, case_details and status, and every other row
\* as they were; with an unknown transcript id or segment id it returns
\* False; when it returns False the rows, their hashes and the audit log
\* are as before.
C19_UpdateOnlyText ==
    [][UpdateStep =>
          /\ reply'.id \notin DOMAIN transcripts => ~reply'.ok
          /\ (/\ reply'.id \in DOMAIN transcripts
              /\ reply'.segment_id \notin
                    SegmentIds(StoredTranscript(transcripts, reply'.id).segments))
                => ~reply'.ok
          /\ ~reply'.ok => transcripts' = transcripts /\ audit_log' = audit_log
          /\ reply'.ok =>
                LET old == StoredTranscript(transcripts, reply'.id)
                    new == StoredTranscript(transcripts', reply'.id)
                IN  /\ DOMAIN transcripts' = DOMAIN transcripts
                    /\ \A i \in DOMAIN transcripts \ {reply'.id} :
                          transcripts'[i] = transcripts[i]
                    /\ new.id = old.id
                    /\ new.metadata = old.metadata
                    /\ new.case_details = old.case_details
                    /\ new.status = old.status
                    /\ Len(new.segments) = Len(old.segments)
                    /\ \A k \in 1..Len(old.segments) :
                          /\ new.segments[k].id = old.segments[k].id
                          /\ new.segments[k].speaker = old.segments[k].speaker
                          /\ new.segments[k].start_time = old.segments[k].start_time
                          /\ new.segments[k].end_time = old.segments[k].end_time
                          /\ new.segments[k].confidence = old.segments[k].confidence
                          /\ new.segments[k].text =
                                IF old.segments[k].id = reply'.segment_id
                                THEN reply'.new_text
                                ELSE old.segments[k].text
    ]_vars

C19_Witness ==
    /\ reply.op = "update"
    /\ reply.ok
    /\ LET t == StoredTranscript(transcripts, reply.id)
       IN  /\ Len(t.segments) = 2
           /\ t.segments[2].id = reply.segment_id
           /\ t.segments[2].text = "overruled"
           /\ t.segments[1].text = "objection"
    /\ audit_log[Len(audit_log)].action = "update_segment"

(***************************************************************************)
(* NoiseSuppression._spectral_subtraction on one spectrogram.  Magnitudes  *)
(* and noise powers are whole numbers; the model keeps the filtered power, *)
(* the value whose square root is the filtered magnitude.  Frequencies are *)
(* compared as fractions: bin k of an n_fft-point transform at sample rate *)
(* sr is centred at k * sr / n_fft Hz.                                     *)
(***************************************************************************)
MaxMag == 2

\* Sample rates and frame counts of the spectrograms: at 100 Hz bin 1 is
\* centred at 50 Hz, at 320 Hz the bins are 40 Hz apart.
Shapes == {[sample_rate |-> 100, frames |-> 2], [sample_rate |-> 320, frames |-> 1]}

NoisePowers == {1, 3}

frame_length(sample_rate) == (25 * sample_rate) \div 1000

\* the indices of librosa.fft_frequencies(sr, n_fft): 0 .. n_fft // 2
FreqBins(sample_rate) == 0..(frame_length(sample_rate) \div 2)

fan_noise_mask(k, sample_rate) ==
    /\ k * sample_rate >= 50 * frame_length(sample_rate)
    /\ k * sample_rate <= 150 * frame_length(sample_rate)

Power(magnitude) == magnitude * magnitude

\* line 104, for all frequencies
StandardSubtraction(spec_mag, noise_power) ==
    [k \in DOMAIN spec_mag |->
        [t \in DOMAIN spec_mag[k] |-> Max(Power(spec_mag[k][t]) - noise_power[k] * 1, 0)]]

FanSubtractionAdded(filtered, spec_mag, noise_power, sample_rate) ==
    [k \in DOMAIN spec_mag |->
        IF fan_noise_mask(k, sample_rate)
        THEN [t \in DOMAIN spec_mag[k] |-> Max(filtered[k][t] - noise_power[k] * 2, 0)]
        ELSE filtered[k]]

\* lines 107-111, assigned to the rows of the fan band
FanSubtraction(filtered, spec_mag, noise_power, sample_rate) ==
    [k \in DOMAIN spec_mag |->
        IF fan_noise_mask(k, sample_rate)
        THEN [t \in DOMAIN spec_mag[k] |->
                 Max(Power(spec_mag[k][t]) - noise_power[k] * 2, 0)]
        ELSE filtered[k]]

spectral_subtraction(spec_mag, noise_power, sample_rate) ==
    FanSubtraction(StandardSubtraction(spec_mag, noise_power), spec_mag, noise_power,
                   sample_rate)

SpectralSubtraction ==
    /\ pc = "ready"
    /\ reply.op = "stft"
    /\ reply' = [n |-> 1, op |-> "spectral_subtraction",
                 sample_rate |-> reply.sample_rate,
                 spec_mag |-> reply.spec_mag,
                 noise_power |-> reply.noise_power,
                 filtered_power |-> spectral_subtraction(reply.spec_mag,
                                        reply.noise_power, reply.sample_rate)]
    /\ UNCHANGED updates
    /\ UNCHANGED <<StoreVars, files, RunVars, transcripts, audit_log, next_uuid>>

InitNoise ==
    /\ librosa_installed = TRUE
    /\ AUDIO_LIBS_AVAILABLE = TRUE
    /\ diarization_available = FALSE
    /\ model = "base"
    /\ files = <<>>
    /\ pc = "ready"
    /\ Idle
    /\ transcripts = <<>>
    /\ audit_log = <<>>
    /\ next_uuid = 5
    /\ \E shape \in Shapes :
          reply \in [n : {0}, op : {"stft"}, sample_rate : {shape.sample_rate},
                     spec_mag : [FreqBins(shape.sample_rate) ->
                                    [1..shape.frames -> 0..MaxMag]],
                     noise_power : [FreqBins(shape.sample_rate) -> NoisePowers]]
    /\ updates = NoUpdates

NextNoise == SpectralSubtraction

SpecNoise == InitNoise /\ [][NextNoise]_vars

\* C20: for every bin and frame the filtered power is max(|X|^2 - c*N, 0)
\* of the original magnitude X and the bin's noise power N, with c = 2 for
\* the bins centred in [50 Hz, 150 Hz] and c = 1 for the others; in the fan
\* band 2*N is subtracted in all, and no filtered power is negative.
C20_FanBandOverride ==
    reply.op = "spectral_subtraction" =>
        \A k \in DOMAIN reply.spec_mag : \A t \in DOMAIN reply.spec_mag[k] :
            LET n_fft == (25 * reply.sample_rate) \div 1000
                in_band == /\ 50 * n_fft <= k * reply.sample_rate
                           /\ k * reply.sample_rate <= 150 * n_fft
                c == IF in_band THEN 2 ELSE 1
                rest == reply.spec_mag[k][t] * reply.spec_mag[k][t]
                           - c * reply.noise_power[k]
            IN  /\ reply.filtered_power[k][t] = (IF rest > 0 THEN rest ELSE 0)
                /\ reply.filtered_power[k][t] >= 0

C20_Witness ==
    /\ reply.op = "spectral_subtraction"
    /\ reply.sample_rate = 320
    /\ reply.spec_mag[1][1] = 2 /\ reply.noise_power[1] = 1
    /\ reply.filtered_power[1][1] = 3
    /\ reply.spec_mag[2][1] = 2 /\ reply.noise_power[2] = 1
    /\ reply.filtered_power[2][1] = 2
    /\ reply.spec_mag[3][1] = 2 /\ reply.noise_power[3] = 3
    /\ reply.filtered_power[3][1] = 0
    /\ reply.filtered_power[4][1] = 3

(***************************************************************************)
(* Two update_transcript_segment calls on one stored transcript, running   *)
(* in two workers on the same database file.  A call reads the transcript  *)
(* through get_transcript on a connection of its own (line 181), changes   *)
(* its copy (lines 186-202), and later writes data, hash and audit entry   *)
(* in one transaction on another connection (lines 208-238).  Nothing ties *)
(* the write to what was read.                                             *)
(***************************************************************************)
Requests == {1, 2}

NewTexts == {"overruled", "withdrawn"}

RaceTranscript ==
    Assembled(3, 1, <<Segment(0, 5, "objection"), Segment(5, 10, "sustained")>>,
              <<[start |-> 0, end |-> 5, speaker |-> "Judge"]>>, "2024-17")

RaceDb == Put(<<>>, 3, Row(RaceTranscript))

RaceLog == <<AuditEntry(4, 3, "create", "system", 2)>>

Request(transcript_id, segment_id, new_text, user) ==
    [pc |-> "read", transcript_id |-> transcript_id, segment_id |-> segment_id,
     new_text |-> new_text, user |-> user, local |-> <<>>, ok |-> <<>>]

\* lines 181-196: the copy with the new text, or nothing when the
\* transcript or the segment is not found
update_read(db, transcript_id, segment_id, new_text, db_ok) ==
    LET got == get_transcript(db, transcript_id, db_ok)
    IN  IF got = <<>>
        THEN <<>>
        ELSE IF segment_id \notin SegmentIds(got[1].segments)
        THEN <<>>
        ELSE <<[got[1] EXCEPT !.segments = UpdateSegments(@, segment_id, new_text)]>>

\* lines 199-238: UPDATE ... WHERE id = ?, INSERT INTO audit_log, commit
update_write(db, log, transcript_id, segment_id, user, updated, db_ok, log_id) ==
    IF ~db_ok
    THEN StoreResult(FALSE, db, log)
    ELSE LET json_data == json_dumps(updated)
         IN  StoreResult(TRUE,
                IF transcript_id \in DOMAIN db
                THEN [db EXCEPT ![transcript_id] = UpdatedRow(@, json_data)]
                ELSE db,
                Append(log, AuditEntry(log_id, transcript_id, "update_segment",
                                       user, segment_id)))

UpdateRead ==
    /\ pc = "ready"
    /\ \E r \in DOMAIN updates : \E db_ok \in BOOLEAN :
          /\ updates[r].pc = "read"
          /\ LET u == updates[r]
                 copy == update_read(transcripts, u.transcript_id, u.segment_id,
                                     u.new_text, db_ok)
             IN  updates' = [updates EXCEPT ![r] =
                    IF copy = <<>>
                    THEN [u EXCEPT !.pc = "done", !.ok = <<FALSE>>]
                    ELSE [u EXCEPT !.pc = "write", !.local = copy]]
    /\ UNCHANGED <<StoreVars, files, RunVars, transcripts, audit_log, next_uuid, reply>>

UpdateWrite ==
    /\ pc = "ready"
    /\ \E r \in DOMAIN updates : \E db_ok \in BOOLEAN :
          /\ updates[r].pc = "write"
          /\ LET u == updates[r]
                 w == update_write(transcripts, audit_log, u.transcript_id,
                                   u.segment_id, u.user, u.local[1], db_ok, next_uuid)
             IN  /\ transcripts' = w.transcripts
                 /\ audit_log' = w.audit_log
                 /\ updates' = [updates EXCEPT ![r] =
                                   [u EXCEPT !.pc = "done", !.ok = <<w.ok>>]]
    /\ next_uuid' = next_uuid + 1
    /\ UNCHANGED <<StoreVars, files, RunVars, reply>>

InitRace ==
    /\ librosa_installed = TRUE
    /\ AUDIO_LIBS_AVAILABLE = TRUE
    /\ diarization_available = FALSE
    /\ model = "base"
    /\ files = <<>>
    /\ pc = "ready"
    /\ Idle
    /\ transcripts = RaceDb
    /\ audit_log = RaceLog
    /\ next_uuid = 5
    /\ reply = NoReply
    /\ updates \in [Requests -> {Request(3, g, t, u) :
                                   g \in {0, 1, 2}, t \in NewTexts, u \in Users}]

NextRace ==
    \/ UpdateRead
    \/ UpdateWrite

SpecRace == InitRace /\ [][NextRace]_vars

TextOf(t, segment_id) ==
    {t.segments[k].text : k \in {j \in 1..Len(t.segments) : t.segments[j].id = segment_id}}

BothReturnedTrue ==
    /\ \A r \in Requests : updates[r].pc = "done" /\ updates[r].ok = <<TRUE>>
    /\ updates[1].segment_id # updates[2].segment_id

\* C21: when two update_transcript_segment calls on two different segments
\* of one transcript have both returned True, however their reads and
\* writes were interleaved, the stored transcript holds both new texts.
C21_NoLostUpdate ==
    BothReturnedTrue =>
        \A r \in Requests :
            TextOf(StoredTranscript(transcripts, 3), updates[r].segment_id)
               = {updates[r].new_text}

(***************************************************************************)
(* The storage service when nothing but the service writes the database.   *)
(***************************************************************************)
NextService ==
    \/ StoreCall
    \/ GetCall
    \/ UpdateCall
    \/ DeleteCall
    \/ ListCall
    \/ ExportCall

SpecService == InitStore /\ [][NextService]_vars

\* C22: after any sequence of store_transcript, update_transcript_segment
\* and delete_transcript calls, successful or not, the hash of every row is
\* the SHA-256 of its data, so get_transcript returns every row that is
\* stored; a step that writes the data of a row writes its hash with it.
C22_HashMatchesData ==
    /\ [](\A i \in DOMAIN transcripts : transcripts[i].hash = sha256(transcripts[i].data))
    /\ []((reply.op = "get" /\ reply.db_ok /\ reply.id \in DOMAIN transcripts)
             => reply.result = <<json_loads(transcripts[reply.id].data)>>)
    /\ [][\A i \in DOMAIN transcripts' :
             (i \notin DOMAIN transcripts \/ transcripts'[i].data # transcripts[i].data)
                => transcripts'[i].hash = sha256(transcripts'[i].data)
       ]_vars

C22_Witness ==
    /\ reply.op = "get"
    /\ reply.result # <<>>
    /\ reply.result[1].segments[1].text = "overruled"
    /\ Len(audit_log) = 2
    /\ audit_log[2].action = "update_segment"

Mutation(r) == r.op \in {"store", "update", "delete"}

ActionOf(r) ==
    IF r.op = "store" THEN "create"
    ELSE IF r.op = "update" THEN "update_segment"
    ELSE "delete"

ActingUser(r) == IF r.op = "store" THEN "system" ELSE r.user

\* C23: a store_transcript, update_transcript_segment or delete_transcript
\* call that returns True appends exactly one audit entry, with its action
\* and the acting user, in the step that changes the data; one that returns
\* False appends none and changes nothing; no operation removes or alters
\* an entry, the deletion of the transcript it refers to included.
C23_AuditTrail ==
    [][/\ Len(audit_log') >= Len(audit_log)
       /\ SubSeq(audit_log', 1, Len(audit_log)) = audit_log
       /\ (reply'.n # reply.n /\ Mutation(reply') /\ reply'.ok) =>
             /\ Len(audit_log') = Len(audit_log) + 1
             /\ audit_log'[Len(audit_log')].action = ActionOf(reply')
             /\ audit_log'[Len(audit_log')].user = ActingUser(reply')
             /\ audit_log'[Len(audit_log')].transcript_id = reply'.id
             /\ reply'.op = "store" => reply'.id \in DOMAIN transcripts' \ DOMAIN transcripts
             /\ reply'.op = "delete" => reply'.id \in DOMAIN transcripts \ DOMAIN transcripts'
             /\ reply'.op = "update" =>
                   reply'.new_text \in TextOf(StoredTranscript(transcripts', reply'.id),
                                              reply'.segment_id)
       /\ ~(reply'.n # reply.n /\ Mutation(reply') /\ reply'.ok) =>
             /\ audit_log' = audit_log
             /\ transcripts' = transcripts
    ]_vars

C23_Witness ==
    /\ reply.op = "delete"
    /\ reply.ok
    /\ reply.id \notin DOMAIN transcripts
    /\ Len(audit_log) = 2
    /\ audit_log[1].transcript_id = reply.id /\ audit_log[1].action = "create"
    /\ audit_log[2].transcript_id = reply.id /\ audit_log[2].action = "delete"
    /\ audit_log[2].user = reply.user

(***************************************************************************)
(* The transcript endpoints of app.py: GET, PUT of a segment, DELETE.  A   *)
(* request carries the authenticated user; the answer is the HTTP status,  *)
(* with the response body for GET.  reached says whether the handler       *)
(* called the storage service.                                             *)
(***************************************************************************)
ROLES ==
    [judge |-> {"read", "edit", "delete"},
     advocate |-> {"read"},
     clerk |-> {"read", "metadata"},
     admin |-> {"read", "edit", "delete", "admin"}]

User(username, role) == [username |-> username, role |-> role]

\* The users of USERS_DB, an administrator, and a user whose role is not
\* in ROLES.
ApiUsers == {User("judge1", "judge"), User("advocate1", "advocate"),
             User("clerk1", "clerk"), User("admin1", "admin"),
             User("guest1", "guest")}

HasAnyRole(user, required_permission) == user.role \in DOMAIN ROLES

has_permission(user, required_permission) ==
    IF user.role \notin DOMAIN ROLES
    THEN FALSE
    ELSE required_permission \in ROLES[user.role]

Forbidden == 403

NotFound == 404

ServerError == 500

Success == 200

\* "except Exception" around the handler body: an HTTPException raised
\* inside the try block is caught and a new one with status 500 is raised.
Caught(status) == ServerError

\* response_model=TranscriptResponse: the body must have transcript_id,
\* segments, metadata and status.
Validated(body) ==
    IF {"transcript_id", "segments", "metadata", "status"} \subseteq DOMAIN body
    THEN Success
    ELSE ServerError

ApiResult(status, reached, db, log) ==
    [status |-> status, reached |-> reached, transcripts |-> db, audit_log |-> log]

api_get_transcript(db, transcript_id, user, db_ok) ==
    IF ~has_permission(user, "read")
    THEN [status |-> Forbidden, reached |-> FALSE]
    ELSE LET got == get_transcript(db, transcript_id, db_ok)
         IN  IF got = <<>>
             THEN [status |-> Caught(NotFound), reached |-> TRUE]
             ELSE IF user.role = "clerk" /\ has_permission(user, "metadata")
             THEN [status |-> Validated([transcript_id |-> transcript_id,
                                         segments |-> <<>>,
                                         metadata |-> got[1].metadata,
                                         status |-> "success",
                                         case_details |-> got[1].case_details]),
                   reached |-> TRUE]
             ELSE [status |-> Validated(got[1]), reached |-> TRUE]

\* broadcast_ok: whether websocket_manager.broadcast returns.
api_update_transcript_segment(db, log, transcript_id, segment_id, text, user, db_ok, broadcast_ok, log_id) ==
    IF ~has_permission(user, "edit")
    THEN ApiResult(Forbidden, FALSE, db, log)
    ELSE LET r == update_transcript_segment(db, log, transcript_id, segment_id, text,
                                            user.username, db_ok, log_id)
         IN  IF r.ok
             THEN ApiResult(IF broadcast_ok THEN Success ELSE ServerError, TRUE,
                            r.transcripts, r.audit_log)
             ELSE ApiResult(Caught(NotFound), TRUE, r.transcripts, r.audit_log)

api_delete_transcript(db, log, transcript_id, user, db_ok, log_id) ==
    IF ~has_permission(user, "delete")
    THEN ApiResult(Forbidden, FALSE, db, log)
    ELSE LET r == delete_transcript(db, log, transcript_id, user.username, db_ok, log_id)
         IN  IF r.ok
             THEN ApiResult(Success, TRUE, r.transcripts, r.audit_log)
             ELSE ApiResult(Caught(NotFound), TRUE, r.transcripts, r.audit_log)

ApiGet ==
    /\ pc = "ready"
    /\ reply.n < MaxOps
    /\ \E transcript_id \in Ids, user \in ApiUsers, db_ok \in BOOLEAN :
          LET r == api_get_transcript(transcripts, transcript_id, user, db_ok)
          IN  reply' = [n |-> reply.n + 1, op |-> "GET", id |-> transcript_id,
                        user |-> user, db_ok |-> db_ok, status |-> r.status,
                        reached |-> r.reached]
    /\ UNCHANGED updates
    /\ UNCHANGED <<StoreVars, files, RunVars, transcripts, audit_log, next_uuid>>

ApiPut ==
    /\ pc = "ready"
    /\ reply.n < MaxOps
    /\ \E transcript_id \in Ids, segment_id \in StoredSegmentIds \cup {0},
          user \in ApiUsers, db_ok \in BOOLEAN, broadcast_ok \in BOOLEAN :
          LET r == api_update_transcript_segment(transcripts, audit_log, transcript_id,
                      segment_id, "overruled", user, db_ok, broadcast_ok, next_uuid)
          IN  /\ transcripts' = r.transcripts
              /\ audit_log' = r.audit_log
              /\ reply' = [n |-> reply.n + 1, op |-> "PUT", id |-> transcript_id,
                           segment_id |-> segment_id, user |-> user, db_ok |-> db_ok,
                           status |-> r.status, reached |-> r.reached]
    /\ next_uuid' = next_uuid + 1
    /\ UNCHANGED updates
    /\ UNCHANGED <<StoreVars, files, RunVars>>

ApiDelete ==
    /\ pc = "ready"
    /\ reply.n < MaxOps
    /\ \E transcript_id \in Ids, user \in ApiUsers, db_ok \in BOOLEAN :
          LET r == api_delete_transcript(transcripts, audit_log, transcript_id, user,
                                         db_ok, next_uuid)
          IN  /\ transcripts' = r.transcripts
              /\ audit_log' = r.audit_log
              /\ reply' = [n |-> reply.n + 1, op |-> "DELETE", id |-> transcript_id,
                           user |-> user, db_ok |-> db_ok, status |-> r.status,
                           reached |-> r.reached]
    /\ next_uuid' = next_uuid + 1
    /\ UNCHANGED updates
    /\ UNCHANGED <<StoreVars, files, RunVars>>

NextApi ==
    \/ ApiGet
    \/ ApiPut
    \/ ApiDelete
    \/ ExternalEdit

SpecApi == InitStore /\ [][NextApi]_vars

Request24 == reply'.n # reply.n /\ reply'.db_ok

Missing(transcript_id) == transcript_id \notin DOMAIN transcripts \/ Mismatch(transcript_id)

\* C24: a GET of a transcript that is absent or fails the hash check, a PUT
\* of a segment whose transcript or segment is unknown, and a DELETE of an
\* unknown transcript, made by a user with the permission, are answered
\* with status 404.
C24_MissingTargetIs404 ==
    [][Request24 =>
          /\ (/\ reply'.op = "GET"
              /\ reply'.user.role \in {"judge", "advocate", "clerk", "admin"}
              /\ Missing(reply'.id)) => reply'.status = 404
          /\ (/\ reply'.op = "PUT"
              /\ reply'.user.role \in {"judge", "admin"}
              /\ \/ Missing(reply'.id)
                 \/ reply'.segment_id \notin
                       SegmentIds(StoredTranscript(transcripts, reply'.id).segments))
                => reply'.status = 404
          /\ (/\ reply'.op = "DELETE"
              /\ reply'.user.role \in {"judge", "admin"}
              /\ reply'.id \notin DOMAIN transcripts) => reply'.status = 404
    ]_vars

Request25 == reply'.n # reply.n /\ reply'.op \in {"PUT", "DELETE"}

\* C25: a PUT of a segment or a DELETE of a transcript calls the storage
\* service only for a judge or an admin; for any other role the answer is
\* 403 and the transcripts and the audit log stay as they were.
C25_EditAndDeleteNeedPermission ==
    [][Request25 =>
          /\ reply'.reached => reply'.user.role \in {"judge", "admin"}
          /\ reply'.user.role \notin {"judge", "admin"} =>
                /\ reply'.status = 403
                /\ ~reply'.reached
                /\ transcripts' = transcripts
                /\ audit_log' = audit_log
    ]_vars

C25_Witness ==
    /\ reply.op = "DELETE"
    /\ reply.user.role = "clerk"
    /\ reply.id \in DOMAIN transcripts
    /\ reply.status = 403
    /\ ~reply.reached
    /\ audit_log = EarlierLog

====
